---------------------------- MODULE Spec2Model ----------------------------
(***************************************************************************)
(* Pool simulation and pricing engine of fuels-amm-rs: the Oxiswap and     *)
(* MiraV1 pool models (src/amm/oxiswap/mod.rs, src/amm/mira/mod.rs), the   *)
(* 64.64 fixed-point division div_uu and the stable-curve solver.          *)
(*                                                                         *)
(* Integer widths.  TLC's integers are 32-bit, so the machine widths are   *)
(* modelled on a reduced scale that keeps their ratios: a u64 has U64Bits  *)
(* bits, a u128 twice, and U256 four times as many, and every shift        *)
(* distance of div_uu (64, 128, 192, 255, 191) is the same multiple of     *)
(* U64Bits as in the source.  10^18 becomes 10^OneDecimals, chosen as in   *)
(* the source so that it fits a u64 and its 4th power - but not its 5th -  *)
(* fits U256.  The fee constants (10000, 1000, 10) are the source's.       *)
(*                                                                         *)
(* Panics.  U256 is uint::construct_uint!: +, -, *, pow panic on overflow, *)
(* / panics on a zero divisor, as_u64/as_u128 panic when the value does    *)
(* not fit, << and >> drop the bits shifted out.  A panicked U256          *)
(* expression is the value Panic, which every operator propagates.         *)
(* Arithmetic on Rust's primitive integers (u64 +=, -=, i8 -, u128 pow)    *)
(* panics on overflow in a build with overflow checks and wraps in one     *)
(* without: both outcomes are modelled (parameter `checks`).               *)
(***************************************************************************)
EXTENDS Integers, Sequences, FiniteSets, TLC

VARIABLES
    pool,     \* the pool acted on (Oxiswap or MiraV1 struct)
    last,     \* the last call made on the pool, its arguments and outcome
    divq,     \* a call of div_uu: arguments and outcome
    amt,      \* a call of the two get_amount_out: arguments and outcomes
    solver,   \* a run of MiraV1::y: arguments, iterate, iteration count
    overflow_checks, \* whether the build checks primitive-integer overflow
    quote,    \* get_amount_out of each pool kind on the same arguments
    pager     \* the factory's discovery loop: pool count, page size, windows

vars == <<pool, last, divq, amt, solver, overflow_checks, quote, pager>>

---------------------------------------------------------------------------
(* Widths *)

U64Bits == 7
U128Bits == 2 * U64Bits
U192Bits == 3 * U64Bits
U256Bits == 4 * U64Bits

U64Max == 2^U64Bits - 1
U128Max == 2^U128Bits - 1
U256Max == 2^U256Bits - 1

---------------------------------------------------------------------------
(* U256 arithmetic (uint crate) *)

Panic == 0 - 1

Panicked(v) == v < 0

Add(a, b) ==
    IF Panicked(a) \/ Panicked(b) THEN Panic
    ELSE IF a > U256Max - b THEN Panic ELSE a + b

Sub(a, b) ==
    IF Panicked(a) \/ Panicked(b) THEN Panic
    ELSE IF b > a THEN Panic ELSE a - b

Mul(a, b) ==
    IF Panicked(a) \/ Panicked(b) THEN Panic
    ELSE IF b > 0 /\ a > U256Max \div b THEN Panic ELSE a * b

Div(a, b) ==
    IF Panicked(a) \/ Panicked(b) THEN Panic
    ELSE IF b = 0 THEN Panic ELSE a \div b

Rem(a, b) ==
    IF Panicked(a) \/ Panicked(b) THEN Panic
    ELSE IF b = 0 THEN Panic ELSE a % b

SaturatingSub(a, b) ==
    IF Panicked(a) \/ Panicked(b) THEN Panic
    ELSE IF b > a THEN 0 ELSE a - b

WrappingSub(a, b) ==
    IF Panicked(a) \/ Panicked(b) THEN Panic
    ELSE IF b > a THEN a + (U256Max - b) + 1 ELSE a - b

Shl(a, s) ==
    IF Panicked(a) \/ Panicked(s) THEN Panic
    ELSE IF s >= U256Bits THEN 0
    ELSE (a % 2^(U256Bits - s)) * 2^s

Shr(a, s) ==
    IF Panicked(a) \/ Panicked(s) THEN Panic
    ELSE IF s >= U256Bits THEN 0
    ELSE a \div 2^s

\* b^e by squaring, as U256::pow and the primitive pow compute it; Panic when
\* the power exceeds max
RECURSIVE PowMax(_, _, _)
PowMax(b, e, max) ==
    IF e = 0 THEN 1
    ELSE LET h == PowMax(b, e \div 2, max)
             hh == IF Panicked(h) \/ (h > 0 /\ h > max \div h) THEN Panic ELSE h * h
         IN IF e % 2 = 0 THEN hh
            ELSE IF Panicked(hh) \/ (b > 0 /\ hh > max \div b) THEN Panic
            ELSE hh * b

Pow(b, e) ==
    IF Panicked(b) \/ Panicked(e) THEN Panic ELSE PowMax(b, e, U256Max)

AsU64(a) == IF Panicked(a) \/ a > U64Max THEN Panic ELSE a

AsU128(a) == IF Panicked(a) \/ a > U128Max THEN Panic ELSE a

---------------------------------------------------------------------------
(* Result<_, _> values, and a call that panicked *)

OkVal(v) == [tag |-> "Ok", val |-> v, err |-> "none"]
ErrVal(e) == [tag |-> "Err", val |-> 0, err |-> e]
Aborted == [tag |-> "Panic", val |-> 0, err |-> "none"]
NoResult == [tag |-> "None", val |-> 0, err |-> "none"]

OkOrAbort(v) == IF Panicked(v) THEN Aborted ELSE OkVal(v)

---------------------------------------------------------------------------
(* Fixed-point engine: div_uu, src/amm/mira/mod.rs:458-539 *)

\* The binary search for the most significant bit of x (lines 465-496): the
\* source halves a 64-bit window (32, 16, 8, 4, 2, 1); the scaled window of
\* U64Bits bits is halved the same way.
MsbSteps == <<4, 2, 1>>

RECURSIVE MsbSearch(_, _, _)
MsbSearch(xc, msb, i) ==
    IF i > Len(MsbSteps) THEN msb
    ELSE IF xc >= 2^MsbSteps[i]
         THEN MsbSearch(xc \div 2^MsbSteps[i], msb + MsbSteps[i], i + 1)
         ELSE MsbSearch(xc, msb, i + 1)

\* lines 465-499: the estimate taken when the shifted numerator overflows
div_uu_estimate(x, y) ==
    LET msb == MsbSearch(Shr(x, U192Bits), U192Bits, 1)
    IN Div(Shl(x, (U256Bits - 1) - msb),
           Add(Shr(Sub(y, 1), msb - (U192Bits - 1)), 1))

\* line 462-464: `x <= U256::max_value()` holds of every x
div_uu_answer(x, y) ==
    IF x <= U256Max THEN Div(Shl(x, U64Bits), y) ELSE div_uu_estimate(x, y)

\* lines 506-535: the multiply-back correction and the narrowing to u128
div_uu_correct(x, y, answer) ==
    LET hi == Mul(answer, Shr(y, U128Bits))
        lo == Mul(answer, y)                 \* y & U256::max_value() = y
        xh0 == Shr(x, U192Bits)
        xl0 == Shl(x, U64Bits)
        xh1 == IF xl0 < lo THEN Sub(xh0, 1) ELSE xh0
        xl1 == WrappingSub(xl0, lo)
        lo2 == Shl(hi, U128Bits)
        xh2 == IF xl1 < lo2 THEN Sub(xh1, 1) ELSE xh1
        xl2 == WrappingSub(xl1, lo2)
        answer2 == Add(answer, Div(xl2, y))
    IN IF Panicked(hi) \/ Panicked(lo) \/ Panicked(xh1) \/ Panicked(xh2)
         THEN Aborted
       ELSE IF xh2 # Shr(hi, U128Bits) THEN ErrVal("RoundingError")
       ELSE IF Panicked(answer2) THEN Aborted
       ELSE IF answer2 > U256Max THEN OkVal(0)
       ELSE OkOrAbort(AsU128(answer2))

\* div_uu testing the numerator, not the denominator, for zero
div_uu_tests_x(x, y) ==
    IF x # 0
      THEN LET answer == div_uu_answer(x, y)
           IN IF Panicked(answer) THEN Aborted
              ELSE div_uu_correct(x, y, answer)
      ELSE ErrVal("YIsZero")

div_uu(x, y) ==
    IF y # 0
      THEN LET answer == div_uu_answer(x, y)
           IN IF answer > U256Max THEN OkVal(0)
              ELSE div_uu_correct(x, y, answer)
      ELSE ErrVal("YIsZero")

---------------------------------------------------------------------------
(* Constant-product swap: Oxiswap::get_amount_out, oxiswap/mod.rs:167-177 *)

\* The fee is a u64 of the source's own scale (300 = 0.30%): fee arithmetic
\* is exact here, the modelled fees being far below the u64 range.
\* Oxiswap_get_amount_out dividing by reserve_in * 1000 alone
Oxiswap_get_amount_out_short_denominator(fee, amount_in, reserve_in, reserve_out) ==
    IF amount_in = 0 \/ reserve_in = 0 \/ reserve_out = 0 THEN 0
    ELSE LET fee_mult == (10000 - (fee \div 10)) \div 10
             amount_in_with_fee == Mul(amount_in, fee_mult)
             numerator == Mul(amount_in_with_fee, reserve_out)
             denominator == Mul(reserve_in, 1000)
         IN Div(numerator, denominator)

Oxiswap_get_amount_out(fee, amount_in, reserve_in, reserve_out) ==
    IF amount_in = 0 \/ reserve_in = 0 \/ reserve_out = 0 THEN 0
    ELSE LET fee_mult == (10000 - (fee \div 10)) \div 10
             amount_in_with_fee == Mul(amount_in, fee_mult)
             numerator == Mul(amount_in_with_fee, reserve_out)
             denominator == Add(Mul(reserve_in, 1000), amount_in_with_fee)
         IN Div(numerator, denominator)

---------------------------------------------------------------------------
(* MiraV1 swap math, mira/mod.rs:254-395 *)

\* 18 in one_e_18 (line 394), on the scale of U64Bits
OneDecimals == 2

one_e_18 == Pow(10, OneDecimals)

adjust(amount, decimals) == Div(Mul(amount, one_e_18), Pow(10, decimals))

unadjust(amount, decimals) == Div(Mul(amount, Pow(10, decimals)), one_e_18)

MiraV1_k(is_stable, x, y, decimals_x, decimals_y) ==
    IF is_stable
      THEN LET x_adjusted == adjust(x, decimals_x)
               y_adjusted == adjust(y, decimals_y)
               a == Div(Mul(x_adjusted, y_adjusted), one_e_18)
               b == Add(Div(Mul(x_adjusted, x_adjusted), one_e_18),
                        Div(Mul(y_adjusted, y_adjusted), one_e_18))
           IN Div(Mul(a, b), one_e_18)
      ELSE Mul(x, y)

MiraV1_f(x, y) ==
    LET x_squared == Div(Mul(x, x), one_e_18)
        y_squared == Div(Mul(y, y), one_e_18)
    IN Add(Div(Mul(x, y_squared), one_e_18), Div(Mul(y, x_squared), one_e_18))

MiraV1_d(x, y) ==
    LET x_squared == Div(Mul(x, x), one_e_18)
        y_squared == Div(Mul(y, y), one_e_18)
    IN Add(Mul(3, Div(Mul(x_squared, y), one_e_18)), y_squared)

\* the loop bound of MiraV1::y (line 343)
MaxIterations == 255

\* One pass of the loop body, lines 344-353: the next iterate
y_next(x_0, xy, y) ==
    LET k == MiraV1_f(x_0, y)
    IN IF Panicked(k) THEN Panic
       ELSE IF k < xy
         THEN Add(y, Div(Mul(Sub(xy, k), one_e_18), MiraV1_d(x_0, y)))
         ELSE SaturatingSub(y, Div(Mul(Sub(k, xy), one_e_18), MiraV1_d(x_0, y)))

\* lines 355-361: the early return
y_converged(y_prev, y) ==
    IF y > y_prev THEN y - y_prev <= 1 ELSE y_prev - y <= 1

\* One pass of the loop on the loop's state: the iterate and whether the
\* function is still in the loop
y_pass(s, x_0, xy) ==
    LET y2 == y_next(x_0, xy, s.y)
    IN IF Panicked(y2) THEN [y |-> Panic, running |-> FALSE]
       ELSE [y |-> y2, running |-> ~y_converged(s.y, y2)]

\* n passes of the loop, or fewer when it returns or panics earlier
RECURSIVE y_passes(_, _, _, _)
y_passes(s, x_0, xy, n) ==
    IF ~s.running \/ n = 0 THEN s
    ELSE IF n = 1 THEN y_pass(s, x_0, xy)
    ELSE LET s1 == y_passes(s, x_0, xy, n \div 2)
         IN IF ~s1.running THEN s1
            ELSE y_passes(s1, x_0, xy, n - (n \div 2))

\* lines 341-364: the value returned, or the panic
MiraV1_y(x_0, xy, y) ==
    IF Panicked(x_0) \/ Panicked(xy) \/ Panicked(y) THEN Panic
    ELSE y_passes([y |-> y, running |-> TRUE], x_0, xy, MaxIterations).y

\* get_volatile_amount_out reading the stable fees of the tuple
get_volatile_amount_out_stable_fees(fee, amount_in, reserve_in, reserve_out) ==
    LET fee_numerator == 10000 - ((fee[2] + fee[4]) \div 10)
        fee_denominator == 10000
        amount_in_with_fee == Mul(amount_in, fee_numerator)
        numerator == Mul(amount_in_with_fee, reserve_out)
        denominator == Add(Mul(reserve_in, fee_denominator), amount_in_with_fee)
    IN Div(numerator, denominator)

get_volatile_amount_out(fee, amount_in, reserve_in, reserve_out) ==
    LET fee_numerator == 10000 - ((fee[1] + fee[3]) \div 10)
        fee_denominator == 10000
        amount_in_with_fee == Mul(amount_in, fee_numerator)
        numerator == Mul(amount_in_with_fee, reserve_out)
        denominator == Add(Mul(reserve_in, fee_denominator), amount_in_with_fee)
    IN Div(numerator, denominator)

get_stable_amount_out(amount_in, reserve_in, reserve_out, decimals_in, decimals_out) ==
    LET xy == MiraV1_k(TRUE, reserve_in, reserve_out, decimals_in, decimals_out)
        amount_in_adjusted == adjust(amount_in, decimals_in)
        reserve_in_adjusted == adjust(reserve_in, decimals_in)
        reserve_out_adjusted == adjust(reserve_out, decimals_out)
        y == Sub(reserve_out_adjusted,
                 MiraV1_y(Add(amount_in_adjusted, reserve_in_adjusted), xy,
                          reserve_out_adjusted))
    IN unadjust(y, decimals_out)

\* MiraV1_get_amount_out without the early return on a zero input
MiraV1_get_amount_out_unguarded(p, amount_in, reserve_in, reserve_out, decimals_in, decimals_out) ==
    IF p.is_stable
      THEN get_stable_amount_out(amount_in, reserve_in, reserve_out,
                                 decimals_in, decimals_out)
      ELSE get_volatile_amount_out(p.fee, amount_in, reserve_in, reserve_out)

MiraV1_get_amount_out(p, amount_in, reserve_in, reserve_out, decimals_in, decimals_out) ==
    IF amount_in = 0 \/ reserve_in = 0 \/ reserve_out = 0 THEN 0
    ELSE IF p.is_stable
      THEN get_stable_amount_out(amount_in, reserve_in, reserve_out,
                                 decimals_in, decimals_out)
      ELSE get_volatile_amount_out(p.fee, amount_in, reserve_in, reserve_out)

get_stable_price(reserve_x, reserve_y, decimals_x, decimals_y) ==
    LET x == adjust(reserve_x, decimals_x)
        y == adjust(reserve_y, decimals_y)
        x3 == Div(Pow(x, 3), Pow(one_e_18, 2))
        y3 == Div(Pow(y, 3), Pow(one_e_18, 2))
        numerator == Add(x3, Mul(Mul(one_e_18, x), y))
        denominator == Add(y3, Mul(Mul(one_e_18, x), y))
        price == Div(Mul(numerator, one_e_18), denominator)
    IN IF decimals_x >= decimals_y
         THEN Mul(price, Pow(10, decimals_x - decimals_y))
         ELSE Div(price, Pow(10, decimals_y - decimals_x))

---------------------------------------------------------------------------
(* Primitive integers: u64 reserves, i8 decimal shift, u128 power of ten *)

U64Add(a, b, checks) ==
    IF Panicked(a) \/ Panicked(b) THEN Panic
    ELSE IF a + b > U64Max
      THEN (IF checks THEN Panic ELSE (a + b) % 2^U64Bits)
      ELSE a + b

U64Sub(a, b, checks) ==
    IF Panicked(a) \/ Panicked(b) THEN Panic
    ELSE IF b > a
      THEN (IF checks THEN Panic ELSE a + 2^U64Bits - b)
      ELSE a - b

\* `d as i8` of a u8
AsI8(d) == IF d >= 128 THEN d - 256 ELSE d

I8Overflows(v) == v < 0 - 128 \/ v > 127

I8Wrap(v) == ((v + 128) % 256) - 128

\* b^e modulo m, for m * m within the integers
RECURSIVE PowMod(_, _, _)
PowMod(b, e, m) ==
    IF e = 0 THEN 1 % m
    ELSE LET h == PowMod(b, e \div 2, m)
         IN IF e % 2 = 0 THEN (h * h) % m ELSE (((h * h) % m) * (b % m)) % m

\* 10u128.pow(n): the product wraps in a build without overflow checks
Pow10U128(n, checks) ==
    LET exact == PowMax(10, n, U128Max)
    IN IF ~Panicked(exact) THEN exact
       ELSE IF checks THEN Panic
       ELSE PowMod(10, n, 2^U128Bits)

---------------------------------------------------------------------------
(* Pool operations: the AutomatedMarketMaker impls of Oxiswap and MiraV1 *)

IsOxiswap(p) == p.kind = "Oxiswap"

\* simulate_swap of both pools, before the Ok(..): the amount or a panic
get_amount_out_for(p, base_token, amount_in) ==
    IF IsOxiswap(p)
      THEN IF p.token_0 = base_token
             THEN Oxiswap_get_amount_out(p.fee, amount_in, p.reserve_0, p.reserve_1)
             ELSE Oxiswap_get_amount_out(p.fee, amount_in, p.reserve_1, p.reserve_0)
      ELSE IF p.token_0 = base_token
             THEN MiraV1_get_amount_out(p, amount_in, p.reserve_0, p.reserve_1,
                                        p.token_0_decimals, p.token_1_decimals)
             ELSE MiraV1_get_amount_out(p, amount_in, p.reserve_1, p.reserve_0,
                                        p.token_1_decimals, p.token_0_decimals)

simulate_swap(p, base_token, amount_in) ==
    OkOrAbort(get_amount_out_for(p, base_token, amount_in))

\* update_reserves leaving the reserve of the input token as it was
update_reserves_without_input(p, base_token, amount_in, amount_out, checks) ==
    IF Panicked(amount_out) \/ Panicked(AsU64(amount_in)) \/ Panicked(AsU64(amount_out))
      THEN [pool |-> p, res |-> Aborted]
    ELSE IF p.token_0 = base_token
      THEN [pool |-> [p EXCEPT !.reserve_1 = p.reserve_1 - amount_out],
            res |-> OkVal(amount_out)]
      ELSE [pool |-> [p EXCEPT !.reserve_0 = p.reserve_0 - amount_out],
            res |-> OkVal(amount_out)]

\* The reserve updates of simulate_swap_mut, in source order: the pool as the
\* call leaves it (at the panic, when it panics) and the outcome.
update_reserves(p, base_token, amount_in, amount_out, checks) ==
    IF Panicked(amount_out) THEN [pool |-> p, res |-> Aborted]
       ELSE IF p.token_0 = base_token
         THEN LET r0 == U64Add(p.reserve_0, AsU64(amount_in), checks)
                  r1 == U64Sub(p.reserve_1, AsU64(amount_out), checks)
              IN IF Panicked(r0) THEN [pool |-> p, res |-> Aborted]
                 ELSE IF Panicked(r1)
                   THEN [pool |-> [p EXCEPT !.reserve_0 = r0], res |-> Aborted]
                 ELSE [pool |-> [p EXCEPT !.reserve_0 = r0, !.reserve_1 = r1],
                       res |-> OkVal(amount_out)]
         ELSE LET r0 == U64Sub(p.reserve_0, AsU64(amount_out), checks)
                  r1 == U64Add(p.reserve_1, AsU64(amount_in), checks)
              IN IF Panicked(r0) THEN [pool |-> p, res |-> Aborted]
                 ELSE IF Panicked(r1)
                   THEN [pool |-> [p EXCEPT !.reserve_0 = r0], res |-> Aborted]
                 ELSE [pool |-> [p EXCEPT !.reserve_0 = r0, !.reserve_1 = r1],
                       res |-> OkVal(amount_out)]

simulate_swap_mut(p, base_token, amount_in, checks) ==
    update_reserves(p, base_token, amount_in,
                    get_amount_out_for(p, base_token, amount_in), checks)

\* Oxiswap::calculate_price: checked_div(..).unwrap() as f64
Oxiswap_calculate_price(p, base_token) ==
    LET reserve_in == IF base_token = p.token_0 THEN p.reserve_0 ELSE p.reserve_1
        reserve_out == IF base_token = p.token_0 THEN p.reserve_1 ELSE p.reserve_0
    IN IF reserve_in = 0 THEN Aborted ELSE OkVal(reserve_out \div reserve_in)

\* MiraV1::calculate_price_64_x_64
calculate_price_64_x_64(p, base_token, checks) ==
    LET raw == AsI8(p.token_0_decimals) - AsI8(p.token_1_decimals)
        decimal_shift == I8Wrap(raw)
        unsigned_abs == IF decimal_shift < 0 THEN 0 - decimal_shift ELSE decimal_shift
        scale == Pow10U128(unsigned_abs, checks)
        r_a == IF decimal_shift < 0 THEN Mul(p.reserve_0, scale) ELSE p.reserve_0
        r_1 == IF decimal_shift < 0 THEN p.reserve_1 ELSE Mul(p.reserve_1, scale)
    IN IF I8Overflows(raw) /\ checks THEN Aborted
       ELSE IF Panicked(scale) THEN Aborted
       ELSE IF base_token = p.token_0
         THEN IF r_a = 0 THEN OkOrAbort(AsU128(U256Max)) ELSE div_uu(r_1, r_a)
         ELSE IF r_1 = 0 THEN OkOrAbort(AsU128(U256Max)) ELSE div_uu(r_a, r_1)

\* u256_to_f64: the whole part is narrowed with as_u128
u256_to_f64(value) ==
    IF Panicked(value) THEN Aborted
    ELSE IF Panicked(AsU128(Div(value, one_e_18))) THEN Aborted
    ELSE OkVal(value)

\* MiraV1::calculate_price; the price is kept as the fixed-point integer the
\* float is converted from (18-decimal when stable, 64.64 otherwise)
MiraV1_calculate_price(p, base_token, checks) ==
    IF p.is_stable
      THEN IF p.token_0 = base_token
             THEN u256_to_f64(get_stable_price(p.reserve_0, p.reserve_1,
                      p.token_0_decimals, p.token_1_decimals))
             ELSE u256_to_f64(get_stable_price(p.reserve_1, p.reserve_0,
                      p.token_1_decimals, p.token_0_decimals))
      ELSE calculate_price_64_x_64(p, base_token, checks)

calculate_price(p, base_token, checks) ==
    IF IsOxiswap(p) THEN Oxiswap_calculate_price(p, base_token)
    ELSE MiraV1_calculate_price(p, base_token, checks)

---------------------------------------------------------------------------
(* Reads of the chain client: sync and populate_data *)

\* What `pool_metadata(pool_id)...simulate(..).await` yields: a chain error
\* (returned by `?`), no value (`.value.unwrap()` panics), or the metadata.
MetadataFailed ==
    [tag |-> "Err", reserve_0 |-> 0, reserve_1 |-> 0, decimals_0 |-> 0, decimals_1 |-> 0]
MetadataAbsent ==
    [tag |-> "None", reserve_0 |-> 0, reserve_1 |-> 0, decimals_0 |-> 0, decimals_1 |-> 0]
MetadataValue(r0, r1, d0, d1) ==
    [tag |-> "Some", reserve_0 |-> r0, reserve_1 |-> r1, decimals_0 |-> d0,
     decimals_1 |-> d1]

\* What `fees()...simulate(..).await` yields: a chain error or the four fees
FeesFailed == [tag |-> "Err", fee |-> <<0, 0, 0, 0>>]
FeesValue(fee) == [tag |-> "Ok", fee |-> fee]

NoRead == [metadata |-> MetadataAbsent, fees |-> FeesFailed]

\* MiraV1::get_reserves
MiraV1_get_reserves(p, read) ==
    IF read.metadata.tag = "Err" THEN ErrVal("SimulationError")
    ELSE IF read.metadata.tag = "None" THEN Aborted
    ELSE OkVal(<<read.metadata.reserve_0, read.metadata.reserve_1>>)

\* sync: the pool after the call and the outcome.  Oxiswap::get_reserves is
\* todo!(), which panics.
sync(p, read) ==
    IF IsOxiswap(p) THEN [pool |-> p, res |-> Aborted]
    ELSE LET reserves == MiraV1_get_reserves(p, read)
         IN IF reserves.tag # "Ok" THEN [pool |-> p, res |-> reserves]
            ELSE [pool |-> [p EXCEPT !.reserve_0 = reserves.val[1],
                                     !.reserve_1 = reserves.val[2]],
                  res |-> OkVal(0)]

\* MiraV1::get_pool_info: the two reads in source order, then the new struct
MiraV1_get_pool_info(p, read) ==
    IF read.metadata.tag = "Err" THEN ErrVal("SimulationError")
    ELSE IF read.metadata.tag = "None" THEN Aborted
    ELSE IF read.fees.tag = "Err" THEN ErrVal("SimulationError")
    ELSE OkVal([kind |-> "MiraV1", address |-> p.address, pool_id |-> p.pool_id,
                token_0 |-> p.pool_id[1],
                token_0_decimals |-> read.metadata.decimals_0,
                token_1 |-> p.pool_id[2],
                token_1_decimals |-> read.metadata.decimals_1,
                reserve_0 |-> read.metadata.reserve_0,
                reserve_1 |-> read.metadata.reserve_1,
                fee |-> read.fees.fee, is_stable |-> p.pool_id[3]])

\* populate_data storing the fetched reserves before the fees are read
populate_data_stores_early(p, read) ==
    IF IsOxiswap(p) THEN [pool |-> p, res |-> Aborted]
    ELSE LET info == MiraV1_get_pool_info(p, read)
         IN IF info.tag = "Ok" THEN [pool |-> info.val, res |-> OkVal(0)]
            ELSE IF read.metadata.tag = "Some"
              THEN [pool |-> [p EXCEPT !.reserve_0 = read.metadata.reserve_0,
                                       !.reserve_1 = read.metadata.reserve_1],
                    res |-> info]
            ELSE [pool |-> p, res |-> info]

\* populate_data: `*self = self.get_pool_info(wallet).await?`.
\* Oxiswap::get_pool_info is todo!(), which panics.
populate_data(p, read) ==
    IF IsOxiswap(p) THEN [pool |-> p, res |-> Aborted]
    ELSE LET info == MiraV1_get_pool_info(p, read)
         IN IF info.tag # "Ok" THEN [pool |-> p, res |-> info]
            ELSE [pool |-> info.val, res |-> OkVal(0)]

---------------------------------------------------------------------------
(* Idle values of the variables a specification does not use *)

NoPool == [kind |-> "none"]
NoCall == [op |-> "none", base_token |-> "none", amount_in |-> 0,
           read |-> NoRead, pre |-> NoPool, res |-> NoResult, n |-> 0]
NoDiv == [x |-> 0, y |-> 0, res |-> NoResult]
NoAmt == [amount_in |-> 0]
NoQuote == [amount_in |-> 0]
NoPager == [n |-> 0, step |-> 0, status |-> "none"]
NoSolver == [x_0 |-> 0, xy |-> 0, y |-> 0, y_prev |-> 0, iter |-> 0,
             status |-> "none"]

---------------------------------------------------------------------------
(* SpecDiv: div_uu applied to every pair of the operands below *)

\* The operands lie within DivSpread of 0, of 2^64, 2^128, 2^192 (scaled)
\* and of U256::max_value().
DivSpread == 2

DivPoints ==
    (0 .. DivSpread)
    \cup { 2^(k * U64Bits) + j : k \in 1..3, j \in 0..DivSpread }
    \cup { 2^(k * U64Bits) - j : k \in 1..4, j \in 1..DivSpread }
    \cup { 3 * 2^(k * U64Bits) + j : k \in 1..3, j \in 0..DivSpread }

InitDiv ==
    /\ divq \in [x : DivPoints, y : DivPoints, res : {NoResult}]
    /\ pool = NoPool
    /\ last = NoCall
    /\ amt = NoAmt
    /\ solver = NoSolver
    /\ overflow_checks = TRUE
    /\ quote = NoQuote
    /\ pager = NoPager

CallDivUU ==
    /\ divq.res = NoResult
    /\ divq' = [divq EXCEPT !.res = div_uu(divq.x, divq.y)]
    /\ UNCHANGED <<pool, last, amt, solver, overflow_checks, quote, pager>>

NextDiv == CallDivUU

SpecDiv == InitDiv /\ [][NextDiv]_vars

---------------------------------------------------------------------------
(* Claims about div_uu *)

\* floor(r * 2^k / y) for r < y, by long division
RECURSIVE ShiftDiv(_, _, _)
ShiftDiv(r, y, k) ==
    IF k = 0 THEN 0
    ELSE LET b == IF 2 * r >= y THEN 1 ELSE 0
         IN b * 2^(k - 1) + ShiftDiv(2 * r - b * y, y, k - 1)

\* floor(x * 2^64 / y) fits 128 bits exactly when floor(x / y) fits 64
QuotientFits(x, y) == x \div y <= U64Max

ExactQuotient(x, y) == (x \div y) * 2^U64Bits + ShiftDiv(x % y, y, U64Bits)

DivDone == divq.res # NoResult

\* C4: for y # 0 and floor(x * 2^64 / y) < 2^128, div_uu(x, y) returns exactly
\* that quotient, also for x >= 2^192.
C4_ExactQuotient ==
    (DivDone /\ divq.y # 0 /\ QuotientFits(divq.x, divq.y))
        => divq.res = OkVal(ExactQuotient(divq.x, divq.y))

\* C5 as claimed: div_uu fails with DivisionByZero if and only if y = 0.
C5_DivisionByZeroIff ==
    DivDone => ((divq.res = ErrVal("DivisionByZero")) <=> (divq.y = 0))

\* C5 amended: div_uu fails with YIsZero if and only if y = 0; for y = 0 it
\* returns no value and no other error.
C5_YIsZeroIff ==
    DivDone => ((divq.res = ErrVal("YIsZero")) <=> (divq.y = 0))

C5_Witness == DivDone /\ divq.y = 0 /\ divq.x # 0 /\ divq.res = ErrVal("YIsZero")

\* C6: for y # 0 and a quotient that does not fit 128 bits, div_uu returns
\* Ok(0).
C6_SaturatesToZero ==
    (DivDone /\ divq.y # 0 /\ ~QuotientFits(divq.x, divq.y))
        => divq.res = OkVal(0)

---------------------------------------------------------------------------
(* SpecAmount: the two constant-product get_amount_out on the same inputs *)

\* Amounts and reserves lie within SwapSpread of 0 and of u64::MAX, or are
\* one of MidPoints; amounts may also exceed u64.
SwapSpread == 3

MidPoints == {10, 50, 100}

ReservePoints ==
    (0 .. SwapSpread) \cup MidPoints \cup ((U64Max - SwapSpread) .. U64Max)

AmountPoints == ReservePoints \cup {U64Max + 1, 2^U128Bits, U256Max}

\* (lp_fee_volatile, protocol_fee_volatile) are drawn from FeeParts; the
\* stable fees of the tuple are fixed.
FeeParts == {0, 10, 150, 300, 4995}

FeeTuples == { <<lp, 5, pr, 2>> : lp \in FeeParts, pr \in FeeParts }

VolatileFee(fee) == fee[1] + fee[3]

InitAmount ==
    /\ amt \in [amount_in : AmountPoints, reserve_in : ReservePoints,
                reserve_out : ReservePoints, fee : FeeTuples,
                oxiswap : {NoResult}, mira : {NoResult}]
    /\ pool = NoPool
    /\ last = NoCall
    /\ divq = NoDiv
    /\ solver = NoSolver
    /\ overflow_checks = TRUE
    /\ quote = NoQuote
    /\ pager = NoPager

\* Oxiswap::get_amount_out on a pool whose fee is the sum of the volatile fees
CallOxiswapGetAmountOut ==
    /\ amt.oxiswap = NoResult
    /\ amt' = [amt EXCEPT !.oxiswap =
                 OkOrAbort(Oxiswap_get_amount_out(VolatileFee(amt.fee),
                     amt.amount_in, amt.reserve_in, amt.reserve_out))]
    /\ UNCHANGED <<pool, last, divq, solver, overflow_checks, quote, pager>>

\* MiraV1::get_amount_out on a non-stable pool with the fee tuple
CallMiraGetAmountOut ==
    /\ amt.mira = NoResult
    /\ amt' = [amt EXCEPT !.mira =
                 OkOrAbort(MiraV1_get_amount_out(
                     [is_stable |-> FALSE, fee |-> amt.fee],
                     amt.amount_in, amt.reserve_in, amt.reserve_out, 0, 0))]
    /\ UNCHANGED <<pool, last, divq, solver, overflow_checks, quote, pager>>

NextAmount == CallOxiswapGetAmountOut \/ CallMiraGetAmountOut

SpecAmount == InitAmount /\ [][NextAmount]_vars

---------------------------------------------------------------------------
(* Claims about get_amount_out *)

FeeMultiplier(fee) == (10000 - (fee \div 10)) \div 10

\* C2: for amount_in, r_in, r_out > 0 and a fee in [0, 10000), the
\* fee-adjusted product on the x1000 scale does not decrease:
\* (r_in*1000 + amount_in_with_fee) * (r_out - amount_out) >= r_in*1000 * r_out.
C2_ProductNotDecreased ==
    (/\ amt # NoAmt
     /\ amt.oxiswap.tag = "Ok"
     /\ amt.amount_in > 0 /\ amt.reserve_in > 0 /\ amt.reserve_out > 0
     /\ VolatileFee(amt.fee) < 10000)
    => LET with_fee == amt.amount_in * FeeMultiplier(VolatileFee(amt.fee))
       IN /\ amt.oxiswap.val <= amt.reserve_out
          /\ (amt.reserve_in * 1000 + with_fee) * (amt.reserve_out - amt.oxiswap.val)
                >= (amt.reserve_in * 1000) * amt.reserve_out

C2_Witness ==
    /\ amt # NoAmt
    /\ amt.oxiswap.tag = "Ok"
    /\ amt.oxiswap.val > 0
    /\ amt.amount_in > 0
    /\ VolatileFee(amt.fee) = 9990

AmountBothDone == amt # NoAmt /\ amt.oxiswap # NoResult /\ amt.mira # NoResult

\* C9 as claimed: for every amount_in and reserves and every fee tuple with
\* volatile fees summing to f in [0, 10000), the non-stable MiraV1 amount
\* equals the Oxiswap amount for fee f.
C9_SameAsOxiswap ==
    (AmountBothDone /\ VolatileFee(amt.fee) < 10000) => amt.mira = amt.oxiswap

\* C9 amended: the two amounts are equal when amount_in and the reserves fit
\* 64 bits and floor(f / 10) is a multiple of 10 (as for f = 300).
C9_SameWhenFeeWholePermille ==
    (/\ AmountBothDone
     /\ VolatileFee(amt.fee) < 10000
     /\ (VolatileFee(amt.fee) \div 10) % 10 = 0
     /\ amt.amount_in <= U64Max)
    => /\ amt.mira.tag = "Ok"
       /\ amt.mira = amt.oxiswap

C9_Witness ==
    /\ AmountBothDone
    /\ VolatileFee(amt.fee) = 600
    /\ amt.amount_in = 50
    /\ amt.mira.tag = "Ok"
    /\ amt.mira.val > 0
    /\ amt.mira = amt.oxiswap

---------------------------------------------------------------------------
(* SpecSolver: MiraV1::y run one loop pass at a time *)

\* x_0, the target k and the starting y lie within SolverSpread of 0 or are
\* one of SolverMidPoints.
SolverSpread == 3

SolverMidPoints == {50, 100, 101, 200, 300, 1000, 5000, 20000}

SolverPoints == (0 .. SolverSpread) \cup SolverMidPoints

InitSolver ==
    /\ \E x_0 \in SolverPoints, xy \in SolverPoints, y \in SolverPoints :
          solver = [x_0 |-> x_0, xy |-> xy, y |-> y, y_prev |-> y, iter |-> 0,
                    status |-> "running"]
    /\ pool = NoPool
    /\ last = NoCall
    /\ divq = NoDiv
    /\ amt = NoAmt
    /\ overflow_checks = TRUE
    /\ quote = NoQuote
    /\ pager = NoPager

\* one pass of `for _ in 0..255` (lines 343-362)
SolverIterate ==
    /\ solver.status = "running"
    /\ solver.iter < MaxIterations
    /\ LET y2 == y_next(solver.x_0, solver.xy, solver.y)
       IN solver' =
            IF Panicked(y2) THEN [solver EXCEPT !.status = "panicked"]
            ELSE [solver EXCEPT !.y = y2, !.y_prev = solver.y,
                                !.iter = solver.iter + 1,
                                !.status = IF y_converged(solver.y, y2)
                                             THEN "returned" ELSE "running"]
    /\ UNCHANGED <<pool, last, divq, amt, overflow_checks, quote, pager>>

\* the loop is exhausted: `y` after the loop (line 363)
SolverLoopEnd ==
    /\ solver.status = "running"
    /\ solver.iter = MaxIterations
    /\ solver' = [solver EXCEPT !.status = "returned"]
    /\ UNCHANGED <<pool, last, divq, amt, overflow_checks, quote, pager>>

NextSolver == SolverIterate \/ SolverLoopEnd

SpecSolver == InitSolver /\ [][NextSolver]_vars

\* C10: for every input the solver returns a value after at most 255 passes:
\* it never aborts, not even once y has reached 0; it returns as soon as two
\* consecutive iterates differ by at most 1, otherwise the 255th iterate.
C10_SolverAlwaysReturns ==
    /\ solver.status # "panicked"
    /\ solver.iter <= MaxIterations
    /\ solver.status = "returned"
         => \/ y_converged(solver.y_prev, solver.y)
            \/ solver.iter = MaxIterations

\* the part of C10 the code keeps: no more than 255 passes, and a return is
\* either the early return or the 255th iterate
SolverBounded ==
    /\ solver.iter <= MaxIterations
    /\ solver.status = "returned"
         => \/ y_converged(solver.y_prev, solver.y)
            \/ solver.iter = MaxIterations

---------------------------------------------------------------------------
(* Spec: swaps simulated on a pool that starts with positive reserves *)

OxiswapPool(r0, r1, d0, d1, fee) ==
    [kind |-> "Oxiswap", address |-> "pool", token_0 |-> "A",
     token_0_decimals |-> d0, token_1 |-> "B", token_1_decimals |-> d1,
     reserve_0 |-> r0, reserve_1 |-> r1, fee |-> fee]

MiraV1Pool(r0, r1, d0, d1, fee, is_stable) ==
    [kind |-> "MiraV1", address |-> "pool", pool_id |-> <<"A", "B", is_stable>>,
     token_0 |-> "A", token_0_decimals |-> d0, token_1 |-> "B",
     token_1_decimals |-> d1, reserve_0 |-> r0, reserve_1 |-> r1,
     fee |-> fee, is_stable |-> is_stable]

Tokens == {"A", "B"}

\* Initial reserves lie within InitSpread of 0 (excluded) or of u64::MAX,
\* or are MidReserve.
InitSpread == 1

MidReserve == 50

InitReserves ==
    (1 .. InitSpread) \cup {MidReserve} \cup ((U64Max - InitSpread + 1) .. U64Max)

SwapAmounts == {0, 1, MidReserve, U64Max + 1}

StableDecimals == {<<0, 0>>, <<1, 1>>, <<1, 2>>}

\* the number of calls made on one pool
MaxCalls == 2

VolatilePools(reserves) ==
    { OxiswapPool(r0, r1, 2, 1, 300) : r0 \in reserves, r1 \in reserves }
    \cup { MiraV1Pool(r0, r1, 2, 1, <<300, 300, 300, 300>>, FALSE) :
             r0 \in reserves, r1 \in reserves }

StablePools(reserves, decimals) ==
    { MiraV1Pool(r0, r1, d[1], d[2], <<300, 300, 300, 300>>, TRUE) :
        r0 \in reserves, r1 \in reserves, d \in decimals }

Init ==
    /\ pool \in VolatilePools(InitReserves) \cup StablePools(InitReserves, StableDecimals)
    /\ last = [NoCall EXCEPT !.pre = pool]
    /\ overflow_checks \in BOOLEAN
    /\ quote = NoQuote
    /\ pager = NoPager
    /\ divq = NoDiv
    /\ amt = NoAmt
    /\ solver = NoSolver

Alive == last.res.tag # "Panic"

SimulateSwap ==
    /\ Alive
    /\ last.n < MaxCalls
    /\ \E base_token \in Tokens, amount_in \in SwapAmounts :
          last' = [op |-> "simulate_swap", base_token |-> base_token,
                   amount_in |-> amount_in, read |-> NoRead, pre |-> pool,
                   res |-> simulate_swap(pool, base_token, amount_in),
                   n |-> last.n + 1]
    /\ UNCHANGED <<pool, divq, amt, solver, overflow_checks, quote, pager>>

SimulateSwapMut ==
    /\ Alive
    /\ last.n < MaxCalls
    /\ \E base_token \in Tokens, amount_in \in SwapAmounts :
          LET out == simulate_swap_mut(pool, base_token, amount_in, overflow_checks)
          IN /\ pool' = out.pool
             /\ last' = [op |-> "simulate_swap_mut", base_token |-> base_token,
                         amount_in |-> amount_in, read |-> NoRead,
                         pre |-> pool, res |-> out.res, n |-> last.n + 1]
    /\ UNCHANGED <<divq, amt, solver, overflow_checks, quote, pager>>

Next == SimulateSwap \/ SimulateSwapMut

Spec == Init /\ [][Next]_vars

---------------------------------------------------------------------------
(* SpecReserves: simulate_swap_mut, call after call, on a constant-product *)
(* pool that starts with positive reserves                                 *)

\* Oxiswap fees (u64) and MiraV1 fee tuples whose volatile fee is in [0, 10000)
OxiswapFees == {0, 300}

MiraV1Fees == {<<0, 300, 0, 300>>, <<9000, 0, 999, 0>>}

InitReservesPools ==
    { OxiswapPool(r0, r1, 2, 1, fee) :
        r0 \in InitReserves, r1 \in InitReserves, fee \in OxiswapFees }
    \cup { MiraV1Pool(r0, r1, 2, 1, fee, FALSE) :
             r0 \in InitReserves, r1 \in InitReserves, fee \in MiraV1Fees }

InitReservesSpec ==
    /\ pool \in InitReservesPools
    /\ last = [NoCall EXCEPT !.pre = pool]
    /\ overflow_checks \in BOOLEAN
    /\ quote = NoQuote
    /\ pager = NoPager
    /\ divq = NoDiv
    /\ amt = NoAmt
    /\ solver = NoSolver

NextReserves == SimulateSwapMut

SpecReserves == InitReservesSpec /\ [][NextReserves]_vars

---------------------------------------------------------------------------
(* SpecLifecycle: a constructed pool is synced, populated and swapped on   *)

\* The pool_id a MiraV1 is constructed with is an argument of MiraV1::new of
\* its own, next to token_0, token_1 and is_stable.
PoolIds == { <<t[1], t[2], s>> : t \in {<<"A", "B">>, <<"B", "A">>}, s \in BOOLEAN }

LifecycleReserves == {<<1, MidReserve>>, <<MidReserve, MidReserve>>}

LifecyclePools ==
    { OxiswapPool(r[1], r[2], 2, 1, 300) : r \in LifecycleReserves }
    \cup { [MiraV1Pool(r[1], r[2], 2, 1, <<300, 300, 300, 300>>, is_stable)
              EXCEPT !.pool_id = id] :
             r \in LifecycleReserves, is_stable \in BOOLEAN, id \in PoolIds }

\* what the chain holds for the pool
ChainReserves == {0, MidReserve}

MetadataReads ==
    {MetadataFailed, MetadataAbsent}
    \cup { MetadataValue(r0, r1, 1, 1) : r0 \in ChainReserves, r1 \in ChainReserves }

FeesReads == {FeesFailed, FeesValue(<<10, 5, 20, 2>>)}

InitLifecycle ==
    /\ pool \in LifecyclePools
    /\ last = [NoCall EXCEPT !.pre = pool]
    /\ overflow_checks \in BOOLEAN
    /\ quote = NoQuote
    /\ pager = NoPager
    /\ divq = NoDiv
    /\ amt = NoAmt
    /\ solver = NoSolver

Sync ==
    /\ Alive
    /\ last.n < MaxCalls
    /\ \E metadata \in MetadataReads :
          LET read == [metadata |-> metadata, fees |-> FeesFailed]
              out == sync(pool, read)
          IN /\ pool' = out.pool
             /\ last' = [op |-> "sync", base_token |-> "none", amount_in |-> 0,
                         read |-> read, pre |-> pool, res |-> out.res,
                         n |-> last.n + 1]
    /\ UNCHANGED <<divq, amt, solver, overflow_checks, quote, pager>>

PopulateData ==
    /\ Alive
    /\ last.n < MaxCalls
    /\ \E metadata \in MetadataReads, fees \in FeesReads :
          LET read == [metadata |-> metadata, fees |-> fees]
              out == populate_data(pool, read)
          IN /\ pool' = out.pool
             /\ last' = [op |-> "populate_data", base_token |-> "none",
                         amount_in |-> 0, read |-> read, pre |-> pool,
                         res |-> out.res, n |-> last.n + 1]
    /\ UNCHANGED <<divq, amt, solver, overflow_checks, quote, pager>>

NextLifecycle == Sync \/ PopulateData \/ SimulateSwap \/ SimulateSwapMut

SpecLifecycle == InitLifecycle /\ [][NextLifecycle]_vars

\* SpecSync: the chain reads alone, sync and populate_data in any order
NextSync == Sync \/ PopulateData

SpecSync == InitLifecycle /\ [][NextSync]_vars

---------------------------------------------------------------------------
(* Claims about sync and populate_data *)

\* C14: through any sequence of sync, populate_data, simulate_swap and
\* simulate_swap_mut calls token_0 and token_1 keep the values the pool was
\* constructed with, whatever the chain client returns.
C14_TokensFixed ==
    [][pool'.token_0 = pool.token_0 /\ pool'.token_1 = pool.token_1]_vars

\* the chain read made by the last call (sync or populate_data on a MiraV1)
\* returned an error
ReadFailed ==
    /\ last.op \in {"sync", "populate_data"}
    /\ ~IsOxiswap(last.pre)
    /\ \/ last.read.metadata.tag = "Err"
       \/ /\ last.op = "populate_data"
          /\ last.read.metadata.tag = "Some"
          /\ last.read.fees.tag = "Err"

\* C15: a successful sync overwrites reserve_0 and reserve_1 with the fetched
\* values and changes nothing else; when the chain read of sync or
\* populate_data fails, the call returns the error and the pool is as before.
C15_SyncFrame ==
    /\ (last.op = "sync" /\ last.res.tag = "Ok")
       => pool = [last.pre EXCEPT !.reserve_0 = last.read.metadata.reserve_0,
                                  !.reserve_1 = last.read.metadata.reserve_1]
    /\ ReadFailed => (last.res = ErrVal("SimulationError") /\ pool = last.pre)

\* populate_data whose metadata read succeeded with other reserves than the
\* pool's and whose fees read failed
C15_Witness ==
    /\ ReadFailed
    /\ last.op = "populate_data"
    /\ last.read.metadata.tag = "Some"
    /\ last.read.metadata.reserve_0 # last.pre.reserve_0
    /\ last.res.tag = "Err"

---------------------------------------------------------------------------
(* SpecDiscovery: MiraV1Factory::get_all_pairs_via_batched_calls,          *)
(* src/amm/mira/factory.rs:59-99                                           *)

\* `let step = 766;`
step == 766

\* The pool count the chain reports is at most MaxPools, or the 2000 of the
\* documented example; the page size is at most MaxStep, or the source's.
MaxPools == 9

MaxStep == 4

Discoveries ==
    { <<n, size>> : n \in 0 .. MaxPools, size \in 1 .. MaxStep } \cup {<<2000, step>>}

InitDiscovery ==
    /\ \E d \in Discoveries :
          pager = [n |-> d[1], step |-> d[2], idx_from |-> 0, idx_to |-> 0,
                   yielded |-> 0, windows |-> << >>, status |-> "created"]
    /\ pool = NoPool
    /\ last = NoCall
    /\ divq = NoDiv
    /\ amt = NoAmt
    /\ solver = NoSolver
    /\ quote = NoQuote
    /\ overflow_checks = TRUE

\* lines 70-86: the total_assets read fails and `?` returns the error, or it
\* yields number_of_pools and the first window is set up
StartDiscovery ==
    /\ pager.status = "created"
    /\ \/ pager' = [pager EXCEPT !.status = "failed"]
       \/ pager' = [pager EXCEPT !.status = "paging",
                                 !.idx_from = 0,
                                 !.idx_to = IF pager.step > pager.n
                                              THEN pager.n ELSE pager.step]
    /\ UNCHANGED <<pool, last, divq, amt, solver, overflow_checks, quote>>

\* One pass of `for _ in (0..number_of_pools).step_by(step)`, lines 88-97: the
\* page [idx_from, idx_to) stands where the pairs are to be appended (line
\* 89), then the window is shifted.
NextPage ==
    /\ pager.status = "paging"
    /\ pager.yielded * pager.step < pager.n
    /\ pager' = [pager EXCEPT
                   !.windows = Append(@, <<pager.idx_from, pager.idx_to>>),
                   !.idx_from = pager.idx_to,
                   !.idx_to = IF Add(pager.idx_to, pager.step) > pager.n
                                THEN Sub(pager.n, 1)
                                ELSE Add(pager.idx_to, pager.step),
                   !.yielded = @ + 1]
    /\ UNCHANGED <<pool, last, divq, amt, solver, overflow_checks, quote>>

\* the iterator is exhausted: the loop ends (and line 98 is todo!())
EndDiscovery ==
    /\ pager.status = "paging"
    /\ pager.yielded * pager.step >= pager.n
    /\ pager' = [pager EXCEPT !.status = "paged"]
    /\ UNCHANGED <<pool, last, divq, amt, solver, overflow_checks, quote>>

NextDiscovery == StartDiscovery \/ NextPage \/ EndDiscovery

SpecDiscovery == InitDiscovery /\ [][NextDiscovery]_vars

---------------------------------------------------------------------------
(* Claims about discovery *)

PageCount(n, size) == (n + size - 1) \div size

\* C16: the windows of the discovery loop are ceil(n/step) half-open windows
\* of at most step entries each, starting at 0, contiguous and increasing,
\* that cover 0..n-1 exactly once; for n = 2000 and step = 766 they are
\* [0,766), [766,1532), [1532,2000).
C16_WindowsPartition ==
    pager.status = "paged"
    => LET w == pager.windows
       IN /\ Len(w) = PageCount(pager.n, pager.step)
          /\ \A j \in 1 .. Len(w) :
                /\ w[j][1] < w[j][2]
                /\ w[j][2] - w[j][1] <= pager.step
                /\ w[j][1] = (IF j = 1 THEN 0 ELSE w[j - 1][2])
          /\ Len(w) > 0 => w[Len(w)][2] = pager.n
          /\ (pager.n = 2000 /\ pager.step = 766)
             => w = << <<0, 766>>, <<766, 1532>>, <<1532, 2000>> >>

---------------------------------------------------------------------------
(* SpecPrice: calculate_price on a pool snapshot *)

\* Snapshot reserves lie within PriceSpread of 0 or of u64::MAX.
PriceSpread == 1

PriceReserves == (0 .. PriceSpread) \cup ((U64Max - PriceSpread) .. U64Max)

\* token decimals (u8)
PriceDecimals == {0, 1, 2, 6, 200}

InitPrice ==
    /\ \E r0 \in PriceReserves, r1 \in PriceReserves,
          d0 \in PriceDecimals, d1 \in PriceDecimals :
          pool \in { OxiswapPool(r0, r1, d0, d1, 300),
                     MiraV1Pool(r0, r1, d0, d1, <<300, 300, 300, 300>>, FALSE),
                     MiraV1Pool(r0, r1, d0, d1, <<300, 300, 300, 300>>, TRUE) }
    /\ last = [NoCall EXCEPT !.pre = pool]
    /\ overflow_checks \in BOOLEAN
    /\ quote = NoQuote
    /\ pager = NoPager
    /\ divq = NoDiv
    /\ amt = NoAmt
    /\ solver = NoSolver

CalculatePrice ==
    /\ last.op = "none"
    /\ \E base_token \in Tokens :
          last' = [op |-> "calculate_price", base_token |-> base_token,
                   amount_in |-> 0, read |-> NoRead, pre |-> pool,
                   res |-> calculate_price(pool, base_token, overflow_checks),
                   n |-> last.n + 1]
    /\ UNCHANGED <<pool, divq, amt, solver, overflow_checks, quote, pager>>

NextPrice == CalculatePrice

SpecPrice == InitPrice /\ [][NextPrice]_vars

---------------------------------------------------------------------------
(* SpecQuote: get_amount_out of a stable MiraV1 pool, a non-stable MiraV1  *)
(* pool and an Oxiswap pool on the same amount and reserves                *)

\* Amounts and reserves lie within QuoteSpread of 0 or of u64::MAX, or are
\* one of QuoteMidPoints.
QuoteSpread == 2

QuoteMidPoints == {5, 10, 20, 50, 100}

QuotePoints ==
    (0 .. QuoteSpread) \cup QuoteMidPoints \cup ((U64Max - QuoteSpread + 1) .. U64Max)

\* (decimals_in, decimals_out): one whole token is 10^decimals base units
QuoteDecimals == {<<0, 0>>, <<1, 1>>, <<2, 2>>, <<1, 2>>, <<2, 1>>}

QuoteFee == <<300, 300, 300, 300>>

InitQuote ==
    /\ \E d \in QuoteDecimals :
          quote \in [amount_in : QuotePoints, reserve_in : QuotePoints,
                     reserve_out : QuotePoints, decimals_in : {d[1]},
                     decimals_out : {d[2]}, stable : {NoResult},
                     volatile : {NoResult}, oxiswap : {NoResult}]
    /\ pool = NoPool
    /\ last = NoCall
    /\ divq = NoDiv
    /\ amt = NoAmt
    /\ solver = NoSolver
    /\ overflow_checks = TRUE
    /\ pager = NoPager

\* MiraV1::get_amount_out on a stable pool
QuoteStable ==
    /\ quote.stable = NoResult
    /\ quote' = [quote EXCEPT !.stable =
                   OkOrAbort(MiraV1_get_amount_out(
                       [is_stable |-> TRUE, fee |-> QuoteFee],
                       quote.amount_in, quote.reserve_in, quote.reserve_out,
                       quote.decimals_in, quote.decimals_out))]
    /\ UNCHANGED <<pool, last, divq, amt, solver, overflow_checks, pager>>

\* MiraV1::get_amount_out on a non-stable pool
QuoteVolatile ==
    /\ quote.volatile = NoResult
    /\ quote' = [quote EXCEPT !.volatile =
                   OkOrAbort(MiraV1_get_amount_out(
                       [is_stable |-> FALSE, fee |-> QuoteFee],
                       quote.amount_in, quote.reserve_in, quote.reserve_out,
                       quote.decimals_in, quote.decimals_out))]
    /\ UNCHANGED <<pool, last, divq, amt, solver, overflow_checks, pager>>

\* Oxiswap::get_amount_out
QuoteOxiswap ==
    /\ quote.oxiswap = NoResult
    /\ quote' = [quote EXCEPT !.oxiswap =
                   OkOrAbort(Oxiswap_get_amount_out(VolatileFee(QuoteFee),
                       quote.amount_in, quote.reserve_in, quote.reserve_out))]
    /\ UNCHANGED <<pool, last, divq, amt, solver, overflow_checks, pager>>

NextQuote == QuoteStable \/ QuoteVolatile \/ QuoteOxiswap

SpecQuote == InitQuote /\ [][NextQuote]_vars

---------------------------------------------------------------------------
(* Claims about the stable curve *)

QuoteInputsPositive ==
    quote.amount_in > 0 /\ quote.reserve_in > 0 /\ quote.reserve_out > 0

\* MiraV1::k of a stable pool holding (reserve_in, reserve_out)
StableK(reserve_in, reserve_out) ==
    MiraV1_k(TRUE, reserve_in, reserve_out, quote.decimals_in, quote.decimals_out)

\* C11: a stable swap on positive reserves with amount_in > 0 does not lower
\* the stable invariant: MiraV1::k on (r_in + amount_in, r_out - amount_out)
\* is at least k on (r_in, r_out).
C11_StableInvariantKept ==
    (QuoteInputsPositive /\ quote.stable.tag = "Ok")
    => /\ quote.stable.val <= quote.reserve_out
       /\ LET k_before == StableK(quote.reserve_in, quote.reserve_out)
              k_after == StableK(quote.reserve_in + quote.amount_in,
                                 quote.reserve_out - quote.stable.val)
          IN ~Panicked(k_after) => k_after >= k_before

\* The claim's "small" swap is at most 1/1000 of the reserve, 10 of the 64
\* bits of a reserve; on the reduced scale that is 1 bit of U64Bits.
SmallShare == 2^1

\* the stable fees (lp_fee_stable + protocol_fee_stable) charged on amount_in,
\* on the 1/10000 scale of the volatile branch
StableFeeShare(amount_in) ==
    (amount_in * ((QuoteFee[2] + QuoteFee[4]) \div 10)) \div 10000

SymmetricSmallSwap ==
    /\ quote.stable # NoResult
    /\ quote.reserve_in = quote.reserve_out
    /\ quote.decimals_in = quote.decimals_out
    /\ quote.amount_in > 0
    /\ quote.amount_in <= quote.reserve_in \div SmallShare

\* C12: on a symmetric stable pool (equal reserves R, equal decimals) a small
\* swap returns amount_out <= amount_in, short of amount_in by no more than
\* the stable fee share plus one unit of rounding, for every R.
C12_SymmetricNearParity ==
    SymmetricSmallSwap
    => /\ quote.stable.tag = "Ok"
       /\ quote.stable.val <= quote.amount_in
       /\ quote.amount_in - quote.stable.val <= StableFeeShare(quote.amount_in) + 1

---------------------------------------------------------------------------
(* Claims about zero inputs *)

QuoteInputZero ==
    quote.amount_in = 0 \/ quote.reserve_in = 0 \/ quote.reserve_out = 0

\* the quoted reserves and decimals as the pools whose token_0 is the input
QuotePools ==
    { OxiswapPool(quote.reserve_in, quote.reserve_out, quote.decimals_in,
                  quote.decimals_out, VolatileFee(QuoteFee)),
      MiraV1Pool(quote.reserve_in, quote.reserve_out, quote.decimals_in,
                 quote.decimals_out, QuoteFee, FALSE),
      MiraV1Pool(quote.reserve_in, quote.reserve_out, quote.decimals_in,
                 quote.decimals_out, QuoteFee, TRUE) }

\* C18: get_amount_out of Oxiswap and of MiraV1, stable and non-stable,
\* returns 0 and does not fail when amount_in, reserve_in or reserve_out is
\* zero, and simulate_swap on such a pool and amount returns Ok(0).
C18_ZeroInputZeroOutput ==
    QuoteInputZero
    => /\ quote.stable \in {NoResult, OkVal(0)}
       /\ quote.volatile \in {NoResult, OkVal(0)}
       /\ quote.oxiswap \in {NoResult, OkVal(0)}
       /\ \A p \in QuotePools :
            simulate_swap(p, p.token_0, quote.amount_in) = OkVal(0)

C18_Witness ==
    /\ quote.amount_in > 0
    /\ quote.reserve_in = 0
    /\ quote.reserve_out > 0
    /\ quote.stable = OkVal(0)
    /\ quote.volatile = OkVal(0)
    /\ quote.oxiswap = OkVal(0)

---------------------------------------------------------------------------
(* Claims about the swap simulation *)

BaseIs0(p, base_token) == p.token_0 = base_token

ReserveIn(p, base_token) == IF BaseIs0(p, base_token) THEN p.reserve_0 ELSE p.reserve_1
ReserveOut(p, base_token) == IF BaseIs0(p, base_token) THEN p.reserve_1 ELSE p.reserve_0
DecimalsIn(p, base_token) ==
    IF BaseIs0(p, base_token) THEN p.token_0_decimals ELSE p.token_1_decimals
DecimalsOut(p, base_token) ==
    IF BaseIs0(p, base_token) THEN p.token_1_decimals ELSE p.token_0_decimals

IsStable(p) == ~IsOxiswap(p) /\ p.is_stable

\* the stable branch is taken and its solver returns a y above
\* reserve_out_adjusted, so that `reserve_out_adjusted - y` underflows
StableSubtractionUnderflows(p, base_token, amount_in) ==
    /\ IsStable(p)
    /\ amount_in # 0 /\ ReserveIn(p, base_token) # 0 /\ ReserveOut(p, base_token) # 0
    /\ LET din == DecimalsIn(p, base_token)
           dout == DecimalsOut(p, base_token)
           xy == MiraV1_k(TRUE, ReserveIn(p, base_token), ReserveOut(p, base_token),
                          din, dout)
           x_0 == Add(adjust(amount_in, din), adjust(ReserveIn(p, base_token), din))
           reserve_out_adjusted == adjust(ReserveOut(p, base_token), dout)
           y == MiraV1_y(x_0, xy, reserve_out_adjusted)
       IN ~Panicked(reserve_out_adjusted) /\ ~Panicked(y) /\ y > reserve_out_adjusted

\* C1: after any sequence of simulate_swap_mut calls from positive reserves,
\* with amount_in within 64 bits, amount_out never exceeds the output reserve:
\* neither `reserve_out_adjusted - y` nor the output-reserve update underflows.
C1_NoReserveUnderflow ==
    (last.op = "simulate_swap_mut" /\ last.amount_in <= U64Max)
    => LET amount_out == get_amount_out_for(last.pre, last.base_token, last.amount_in)
       IN /\ ~StableSubtractionUnderflows(last.pre, last.base_token, last.amount_in)
          /\ ~Panicked(amount_out) => amount_out <= ReserveOut(last.pre, last.base_token)

\* C3: simulate_swap changes no field; simulate_swap_mut returns what
\* simulate_swap returns on the same pool and arguments, adds amount_in to the
\* base token's reserve, subtracts amount_out from the other reserve and
\* changes no other field.
C3_SwapFrame ==
    /\ last.op = "simulate_swap" => pool = last.pre
    /\ (last.op = "simulate_swap_mut" /\ last.res.tag = "Ok")
       => /\ last.res = simulate_swap(last.pre, last.base_token, last.amount_in)
          /\ IF BaseIs0(last.pre, last.base_token)
               THEN pool = [last.pre EXCEPT
                              !.reserve_0 = last.pre.reserve_0 + last.amount_in,
                              !.reserve_1 = last.pre.reserve_1 - last.res.val]
               ELSE pool = [last.pre EXCEPT
                              !.reserve_0 = last.pre.reserve_0 - last.res.val,
                              !.reserve_1 = last.pre.reserve_1 + last.amount_in]

\* an overflow C8 names: amount_in or the updated input reserve does not fit
\* 64 bits, or (stable pools) a product of the invariant exceeds 256 bits
OverflowCase(p, base_token, amount_in) ==
    \/ amount_in > U64Max
    \/ ReserveIn(p, base_token) + amount_in > U64Max
    \/ /\ IsStable(p)
       /\ amount_in # 0 /\ ReserveIn(p, base_token) # 0 /\ ReserveOut(p, base_token) # 0
       /\ Panicked(MiraV1_k(TRUE, ReserveIn(p, base_token), ReserveOut(p, base_token),
                            DecimalsIn(p, base_token), DecimalsOut(p, base_token)))

\* C8: in an overflow case simulate_swap and simulate_swap_mut return
\* SwapSimulationError::Overflow, and simulate_swap_mut leaves both reserves
\* as they were.
C8_OverflowIsReturned ==
    (/\ last.op \in {"simulate_swap", "simulate_swap_mut"}
     /\ \/ last.amount_in > U64Max
        \/ /\ last.op = "simulate_swap_mut"
           /\ OverflowCase(last.pre, last.base_token, last.amount_in))
    => /\ last.res = ErrVal("Overflow")
       /\ pool = last.pre

---------------------------------------------------------------------------
(* Claims about calculate_price *)

\* C7: calculate_price completes with Ok(price) or an ArithmeticError on every
\* snapshot (u64 reserves, zero included; u8 decimals; either base token): it
\* never aborts.
C7_PriceNeverAborts ==
    last.op = "calculate_price" => last.res.tag \in {"Ok", "Err"}

\* (x^3 + 1e18*x*y) * 1e18 / (y^3 + 1e18*x*y) on adjusted reserves x, y, all
\* three terms being products of three 18-decimal factors, rescaled by the
\* difference of the decimals; in unbounded arithmetic
ExactStablePrice(x, y, decimals_x, decimals_y) ==
    LET one == 10^OneDecimals
        price == ((x * x * x + one * x * y) * one) \div (y * y * y + one * x * y)
    IN IF decimals_x >= decimals_y
         THEN price * 10^(decimals_x - decimals_y)
         ELSE price \div 10^(decimals_y - decimals_x)

\* the adjusted reserves of the priced pool fit a u64 and the denominator of
\* the price is not zero
StablePriceDefined ==
    /\ last.op = "calculate_price"
    /\ IsStable(last.pre)
    /\ LET x == adjust(ReserveIn(last.pre, last.base_token),
                       DecimalsIn(last.pre, last.base_token))
           y == adjust(ReserveOut(last.pre, last.base_token),
                       DecimalsOut(last.pre, last.base_token))
       IN ~Panicked(x) /\ ~Panicked(y) /\ x <= U64Max /\ y > 0 /\ y <= U64Max

\* C13: the stable price is floor((x^3 + 1e18*x*y) * 1e18 / (y^3 + 1e18*x*y))
\* on the adjusted reserves, times 10^(dx-dy) when dx >= dy and divided by
\* 10^(dy-dx) otherwise.
C13_StablePriceFormula ==
    StablePriceDefined
    => last.res =
         OkVal(ExactStablePrice(
                 adjust(ReserveIn(last.pre, last.base_token),
                        DecimalsIn(last.pre, last.base_token)),
                 adjust(ReserveOut(last.pre, last.base_token),
                        DecimalsOut(last.pre, last.base_token)),
                 DecimalsIn(last.pre, last.base_token),
                 DecimalsOut(last.pre, last.base_token)))

\* the fixed-point unit of a price: 2^64 for the 64.64 value of MiraV1, 1 for
\* the float of Oxiswap, which is converted from an integer quotient
PriceUnit(p) == IF IsOxiswap(p) THEN 1 ELSE 2^U64Bits

\* a constant-product snapshot with positive reserves whose ratio, after the
\* reserve of the token with fewer decimals is scaled up, is within
\* [2^-64, 2^64)
RatioRepresentable ==
    /\ last.op = "calculate_price"
    /\ ~IsStable(last.pre)
    /\ last.pre.reserve_0 > 0
    /\ last.pre.reserve_1 > 0
    /\ last.pre.token_0_decimals <= OneDecimals
    /\ last.pre.token_1_decimals <= OneDecimals
    /\ LET d0 == last.pre.token_0_decimals
           d1 == last.pre.token_1_decimals
           a == IF d0 < d1 THEN last.pre.reserve_0 * 10^(d1 - d0)
                ELSE last.pre.reserve_0
           b == IF d0 < d1 THEN last.pre.reserve_1
                ELSE last.pre.reserve_1 * 10^(d0 - d1)
       IN a <= b * 2^U64Bits /\ b < a * 2^U64Bits

\* C17: on a constant-product pool (Oxiswap, non-stable MiraV1) with positive
\* reserves and a representable decimal-normalised ratio, the price of token_0
\* and the price of token_1 are both non-zero and reciprocal: their product is
\* 1 within the rounding of the fixed-point representation.
C17_PricesReciprocal ==
    RatioRepresentable
    => LET p0 == calculate_price(last.pre, last.pre.token_0, overflow_checks)
           p1 == calculate_price(last.pre, last.pre.token_1, overflow_checks)
           one == PriceUnit(last.pre) * PriceUnit(last.pre)
       IN /\ p0.tag = "Ok" /\ p0.val # 0
          /\ p1.tag = "Ok" /\ p1.val # 0
          /\ p0.val * p1.val <= one
          /\ one < (p0.val + 1) * (p1.val + 1)

\* C17 restricted to MiraV1 (not a claim of the specification; it locates the
\* failure in Oxiswap::calculate_price)
PricesReciprocalMiraV1 == IsOxiswap(last.pre) \/ C17_PricesReciprocal

---------------------------------------------------------------------------
(* Claims about the reserves under simulate_swap_mut *)

\* the step is a simulate_swap_mut on a constant-product pool with positive
\* reserves whose amount_in and whose input reserve after the swap fit a u64
SwapWithinWidth ==
    /\ last'.op = "simulate_swap_mut"
    /\ last'.n = last.n + 1
    /\ ~IsStable(pool)
    /\ pool.reserve_0 > 0
    /\ pool.reserve_1 > 0
    /\ last'.amount_in <= U64Max
    /\ ReserveIn(pool, last'.base_token) + last'.amount_in <= U64Max

\* C19: every simulate_swap_mut on a constant-product pool with positive
\* reserves, in either direction, whose amount_in keeps the reserves within
\* 64 bits, leaves both reserves strictly positive and does not lower
\* reserve_0 * reserve_1.
C19_ReservesPositiveProductKept ==
    [][SwapWithinWidth
       => /\ last'.res.tag = "Ok"
          /\ pool'.reserve_0 > 0
          /\ pool'.reserve_1 > 0
          /\ pool'.reserve_0 * pool'.reserve_1 >= pool.reserve_0 * pool.reserve_1]_vars

\* a second swap in a row, in the direction opposite to the first, that paid
\* out and raised the product
C19_Witness ==
    /\ last.op = "simulate_swap_mut"
    /\ last.n = 2
    /\ last.base_token = last.pre.token_1
    /\ last.pre.reserve_0 > MidReserve
    /\ last.res.tag = "Ok"
    /\ last.res.val > 0
    /\ ~IsStable(pool)
    /\ pool.reserve_0 > 0
    /\ pool.reserve_1 > 0
    /\ pool.reserve_0 * pool.reserve_1 > last.pre.reserve_0 * last.pre.reserve_1

===========================================================================
